---------------------------- MODULE Spec2Model ----------------------------
(***************************************************************************)
(* A model of the rendering core of Rusty-Ray-Tracer: Scene::new,          *)
(* closest_intersection, shadow, light, trace and draw (src/scene/mod.rs), *)
(* Ray (src/ray/mod.rs) and Camera (src/camera/mod.rs).                    *)
(*                                                                         *)
(* Number representation.  Vector coordinates are integers (the scene      *)
(* lives on the unit lattice).  f64 scalars that can be fractional (the    *)
(* shading coefficients, colour components) are fixed-point: the integer n *)
(* stands for n / FixedOne.  The shadow-ray bias of 0.00001 is below the   *)
(* lattice, so a ray's origin is kept in two parts: origin (lattice) and   *)
(* origin_eps (a vector counted in units of 0.00001).                      *)
(***************************************************************************)
EXTENDS Integers, Sequences, FiniteSets, TLC

VARIABLES
    scene,      \* the Scene struct: camera, scene_contents, scene_characteristics,
                \* pixel_buffer, view_window
    pc,         \* position of the caller in draw(): "idle", "loop", "save", "panicked"
    x, y,       \* the loop counters of draw()
    log,        \* calls made by the running (or last) draw(), in order
    before,     \* the pixel buffer at the entry of the running (or last) draw()
    returned,   \* the pixel buffers at each normal return of draw(), in order
    call        \* the last direct call of closest_intersection / shadow / light

vars == <<scene, pc, x, y, log, before, returned, call>>

---------------------------------------------------------------------------
(* Bounds of the model *)

FixedOne == 2
MaxObjects == 2
MaxLights == 2
MaxSide == 2
MaxDraws == 2

(* Program constants *)

\* 0.00001 = 1 / EpsilonInv, the shadow-ray bias (scene/mod.rs line 131)
EpsilonInv == 100000
\* f64::MAX, the initial shortest_distance (scene/mod.rs line 90): above every
\* squared distance of the lattice
F64Max == 2000000000
\* Color::new(100, 100, 100), the specular colour (scene/mod.rs line 145)
SpecularLevel == 100

---------------------------------------------------------------------------
(* Option<T> *)

None == <<>>
Some(v) == <<v>>
IsSome(o) == o # None
Unwrap(o) == o[1]

---------------------------------------------------------------------------
(* cgmath Vector3<f64> on the lattice *)

Vector3(a, b, c) == <<a, b, c>>
Zero == Vector3(0, 0, 0)
VAdd(u, v) == Vector3(u[1] + v[1], u[2] + v[2], u[3] + v[3])
VSub(u, v) == Vector3(u[1] - v[1], u[2] - v[2], u[3] - v[3])
VScale(u, k) == Vector3(u[1] * k, u[2] * k, u[3] * k)
Dot(u, v) == u[1] * v[1] + u[2] * v[2] + u[3] * v[3]
Cross(u, v) ==
    Vector3(u[2] * v[3] - u[3] * v[2],
            u[3] * v[1] - u[1] * v[3],
            u[1] * v[2] - u[2] * v[1])

ISqrt(n) == CHOOSE r \in 0..n : r * r <= n /\ n < (r + 1) * (r + 1)

\* |v|, rounded down to the lattice (exact for axis-aligned v)
Magnitude(v) == ISqrt(Dot(v, v))

\* v / |v|, component-wise (exact for axis-aligned v)
Normalize(v) ==
    LET m == Magnitude(v)
    IN  Vector3(v[1] \div m, v[2] \div m, v[3] \div m)

\* |w + 0.00001 * e| ^ 2 as the two-digit number <<hi, lo>> = hi / eps^2 + lo,
\* in units of eps^2.  The code compares magnitudes; the square root is monotone,
\* so squared magnitudes compare the same way.
MagnitudeSq(w, e) ==
    <<Dot(w, w), 2 * EpsilonInv * Dot(w, e) + Dot(e, e)>>

\* a > b for two such numbers
Greater(a, b) == a[1] > b[1] \/ (a[1] = b[1] /\ a[2] > b[2])

---------------------------------------------------------------------------
(* f64 scalars and Color, fixed-point *)

ToFixed(n) == n * FixedOne
FMul(a, b) == (a * b) \div FixedOne
FMax(a, b) == IF a >= b THEN a ELSE b

RECURSIVE Powf(_, _)
\* base.powf(exponent) for a whole exponent
Powf(base, exponent) ==
    IF exponent = 0 THEN ToFixed(1) ELSE FMul(base, Powf(base, exponent - 1))

ColorNew(r, g, b) == <<ToFixed(r), ToFixed(g), ToFixed(b)>>
ColorScale(c, k) == <<FMul(c[1], k), FMul(c[2], k), FMul(c[3], k)>>
ColorAdd(c, d) == <<c[1] + d[1], c[2] + d[2], c[3] + d[3]>>

---------------------------------------------------------------------------
(* Ray (src/ray/mod.rs) *)

\* Ray::new: stores its second argument as the direction, unchanged
RayNew(origin, direction) ==
    [origin |-> origin, origin_eps |-> Zero, direction |-> direction]

\* Ray::from_points
RayFromPoints(origin, destination) ==
    [origin |-> origin, origin_eps |-> Zero,
     direction |-> Normalize(VSub(destination, origin))]

\* Ray::reflection
Reflection(ray, normal) ==
    VSub(ray.direction, VScale(normal, 2 * Dot(ray.direction, normal)))

\* origin += direction * 0.00001
Bias(ray) == [ray EXCEPT !.origin_eps = VAdd(@, ray.direction)]

---------------------------------------------------------------------------
(* Camera (src/camera/mod.rs) *)

CameraNew(origin, target) == [origin |-> origin, target |-> target]

OrientationVector(camera) == Normalize(VSub(camera.target, camera.origin))

---------------------------------------------------------------------------
(* Shape, Light, PixelBuffer, ViewWindow: the collaborators of Scene *)

\* A shape is a finite set of surface points with a colour and a facing.
\* intersect(ray): the surface point nearest to the ray's origin among those
\* on the half-line origin + t * direction, t >= 0; None when there is none.
ShapeIntersect(shape, ray) ==
    LET rel(p) == VSub(VScale(VSub(p, ray.origin), EpsilonInv), ray.origin_eps)
        on(p) == /\ ray.direction # Zero
                 /\ Cross(rel(p), ray.direction) = Zero
                 /\ Dot(rel(p), ray.direction) >= 0
        dist(p) == MagnitudeSq(VSub(p, ray.origin), VSub(Zero, ray.origin_eps))
        hits == {p \in shape.surface : on(p)}
    IN  IF hits = {} THEN None
        ELSE Some(CHOOSE p \in hits : \A q \in hits : ~Greater(dist(p), dist(q)))

\* normal(point, view_hint): the shape's facing, turned against the view direction
ShapeNormal(shape, point, view_hint) ==
    IF Dot(shape.facing, view_hint) > 0 THEN VSub(Zero, shape.facing) ELSE shape.facing

ShapeColor(shape) == shape.color

Background == <<0, 0, 0>>
ChannelMax == ToFixed(255)
Clamp(c) ==
    [i \in 1..3 |-> IF c[i] > ChannelMax THEN ChannelMax ELSE IF c[i] < 0 THEN 0 ELSE c[i]]

PixelBufferNew(width, height) ==
    [width |-> width, height |-> height,
     pixels |-> [cell \in (0..(width - 1)) \X (0..(height - 1)) |-> Background]]

SetPixel(buffer, px, py, color) ==
    [buffer EXCEPT !.pixels[<<px, py>>] = Clamp(color)]

ViewWindowNew(width, height, viewport_width, position) ==
    [pixel_width |-> width, pixel_height |-> height,
     viewport_width |-> viewport_width, position |-> position]

\* at(x, y): the centre of pixel (x, y) on the plane through position, spanned by
\* the world axes; the plane is viewport_width wide and viewport_width * h / w high
ViewWindowAt(view_window, px, py) ==
    LET w == view_window.pixel_width
        h == view_window.pixel_height
        right == (view_window.viewport_width * (2 * px + 1 - w)) \div (2 * w)
        up == (view_window.viewport_width * (2 * py + 1 - h)) \div (2 * w)
    IN  VAdd(view_window.position, Vector3(right, up, 0))

---------------------------------------------------------------------------
(* Scene (src/scene/mod.rs) *)

RECURSIVE Flatten(_)
\* shapes.append(object_definition.read_shapes()) for every object definition
Flatten(objects) ==
    IF objects = <<>> THEN <<>> ELSE Head(objects) \o Flatten(Tail(objects))

\* Scene::new
SceneNew(configuration) ==
    LET camera == configuration.camera
        view_window_position ==
            VAdd(camera.origin,
                 VScale(Normalize(VSub(camera.target, camera.origin)),
                        configuration.viewport_distance))
    IN  [scene_contents |->
            [lights |-> configuration.lights,
             shapes |-> Flatten(configuration.objects)],
         scene_characteristics |->
            [ambient_coefficient |-> configuration.ambient_coefficient,
             diffuse_coefficient |-> ToFixed(1) - configuration.ambient_coefficient,
             specular_coefficient |-> configuration.specular_coefficient],
         camera |-> camera,
         pixel_buffer |-> PixelBufferNew(configuration.width, configuration.height),
         view_window |->
            ViewWindowNew(configuration.width, configuration.height,
                          configuration.viewport_width, view_window_position)]

RayHit(shape, intersection, distance) ==
    [shape |-> shape, intersection |-> intersection, distance |-> distance]

RECURSIVE ClosestLoopTiesLast(_, _, _, _, _, _)
\* closest_intersection with shortest_distance >= distance: the last of several
\* equidistant shapes wins
ClosestLoopTiesLast(self, ray, this_object, i, result, shortest_distance) ==
    IF i > Len(self.scene_contents.shapes) THEN result
    ELSE
        LET shape == self.scene_contents.shapes[i]
            hit == ShapeIntersect(shape, ray)
            intersection == Unwrap(hit)
            distance ==
                MagnitudeSq(VSub(intersection, ray.origin), VSub(Zero, ray.origin_eps))
        IN  IF IsSome(this_object) /\ shape = Unwrap(this_object)
            THEN ClosestLoopTiesLast(self, ray, this_object, i + 1, result,
                                     shortest_distance)
            ELSE IF IsSome(hit) /\ ~Greater(distance, shortest_distance)
            THEN ClosestLoopTiesLast(self, ray, this_object, i + 1,
                                     Some(RayHit(shape, intersection, distance)), distance)
            ELSE ClosestLoopTiesLast(self, ray, this_object, i + 1, result,
                                     shortest_distance)

RECURSIVE ClosestLoop(_, _, _, _, _, _)
\* the for loop of closest_intersection, from shape i on
ClosestLoop(self, ray, this_object, i, result, shortest_distance) ==
    IF i > Len(self.scene_contents.shapes) THEN result
    ELSE
        LET shape == self.scene_contents.shapes[i]
            hit == ShapeIntersect(shape, ray)
            intersection == Unwrap(hit)
            distance ==
                MagnitudeSq(VSub(intersection, ray.origin), VSub(Zero, ray.origin_eps))
        IN  IF IsSome(this_object) /\ shape = Unwrap(this_object)
            THEN ClosestLoop(self, ray, this_object, i + 1, result, shortest_distance)
            ELSE IF IsSome(hit) /\ Greater(shortest_distance, distance)
            THEN ClosestLoop(self, ray, this_object, i + 1,
                             Some(RayHit(shape, intersection, distance)), distance)
            ELSE ClosestLoop(self, ray, this_object, i + 1, result, shortest_distance)

\* closest_intersection without the skip of this_object
ClosestIntersectionNoSkip(self, ray, this_object) ==
    ClosestLoop(self, ray, None, 1, None, <<F64Max, 0>>)

\* Scene::closest_intersection
ClosestIntersection(self, ray, this_object) ==
    ClosestLoop(self, ray, this_object, 1, None, <<F64Max, 0>>)

\* shadow that counts an occluder only when it is nearer than the light
ShadowUpToLight(self, ray_hit, to_light) ==
    LET found == ClosestIntersection(self, to_light, Some(ray_hit.shape))
    IN  /\ IsSome(found)
        /\ Greater(MagnitudeSq(VSub(to_light.direction, to_light.origin),
                               VSub(Zero, to_light.origin_eps)),
                   Unwrap(found).distance)

\* Scene::shadow
Shadow(self, ray_hit, to_light) ==
    IsSome(ClosestIntersection(self, to_light, Some(ray_hit.shape)))

\* the shadow ray of light(): Ray::new(ray_hit.intersection, light.origin), biased
ToLight(ray_hit, light) == Bias(RayNew(ray_hit.intersection, light.origin))

\* the value assigned to result for a light that is lit and has shade > 0
Shaded(self, ray, ray_hit, light) ==
    LET shape_color == ShapeColor(ray_hit.shape)
        to_light == ToLight(ray_hit, light)
        normal == ShapeNormal(ray_hit.shape, ray_hit.intersection,
                              OrientationVector(self.camera))
        shade == ToFixed(Dot(to_light.direction, normal))
        specular ==
            Powf(FMax(0, ToFixed(Dot(to_light.direction, Reflection(ray, normal)))),
                 self.scene_characteristics.specular_coefficient)
    IN  ColorAdd(
            ColorAdd(
                ColorScale(ColorNew(SpecularLevel, SpecularLevel, SpecularLevel), specular),
                ColorScale(
                    ColorScale(shape_color, self.scene_characteristics.diffuse_coefficient),
                    shade)),
            ColorScale(shape_color, self.scene_characteristics.ambient_coefficient))

RECURSIVE LightLoopAdds(_, _, _, _, _)
\* light() that adds each lit light's value to the running result
LightLoopAdds(self, ray, ray_hit, i, result) ==
    IF i > Len(self.scene_contents.lights) THEN result
    ELSE
        LET light == self.scene_contents.lights[i]
            to_light == ToLight(ray_hit, light)
            normal == ShapeNormal(ray_hit.shape, ray_hit.intersection,
                                  OrientationVector(self.camera))
            shade == Dot(to_light.direction, normal)
        IN  IF Shadow(self, ray_hit, to_light)
            THEN LightLoopAdds(self, ray, ray_hit, i + 1, result)
            ELSE IF shade > 0
            THEN LightLoopAdds(self, ray, ray_hit, i + 1,
                               ColorAdd(result, Shaded(self, ray, ray_hit, light)))
            ELSE LightLoopAdds(self, ray, ray_hit, i + 1, result)

RECURSIVE LightLoop(_, _, _, _, _)
\* the for loop of light(), from light i on
LightLoop(self, ray, ray_hit, i, result) ==
    IF i > Len(self.scene_contents.lights) THEN result
    ELSE
        LET light == self.scene_contents.lights[i]
            to_light == ToLight(ray_hit, light)
            normal == ShapeNormal(ray_hit.shape, ray_hit.intersection,
                                  OrientationVector(self.camera))
            shade == Dot(to_light.direction, normal)
        IN  IF Shadow(self, ray_hit, to_light)
            THEN LightLoop(self, ray, ray_hit, i + 1, result)
            ELSE IF shade > 0
            THEN LightLoop(self, ray, ray_hit, i + 1, Shaded(self, ray, ray_hit, light))
            ELSE LightLoop(self, ray, ray_hit, i + 1, result)

\* light() that starts from black instead of the ambient colour
LightFromBlack(self, ray, ray_hit) ==
    LightLoop(self, ray, ray_hit, 1, Background)

\* Scene::light
Light(self, ray, ray_hit) ==
    LightLoop(self, ray, ray_hit, 1,
              ColorScale(ShapeColor(ray_hit.shape),
                         self.scene_characteristics.ambient_coefficient))

\* Scene::trace
Trace(self, ray) ==
    LET found == ClosestIntersection(self, ray, None)
    IN  IF IsSome(found) THEN Some(Light(self, ray, Unwrap(found))) ELSE None

\* the primary ray of draw() for pixel (px, py)
PrimaryRay(self, px, py) ==
    RayNew(self.camera.origin, ViewWindowAt(self.view_window, px, py))


---------------------------------------------------------------------------
(* The scenes the model draws its configurations from *)

Red == ColorNew(80, 0, 0)
Green == ColorNew(0, 60, 0)
Blue == ColorNew(0, 0, 40)

Shape(surface, color, facing) ==
    [surface |-> surface, color |-> color, facing |-> facing]

ShapeA == Shape({Vector3(1, 1, 1)}, Red, Vector3(0, 0, -1))
ShapeB == Shape({Vector3(2, 2, 2), Vector3(1, 1, 3)}, Green, Vector3(0, 0, 1))
ShapeC == Shape({Vector3(1, 1, 1)}, Blue, Vector3(0, 0, -1))
ShapeD == Shape({Vector3(1, 1, -2), Vector3(0, 0, 2)}, Green, Vector3(0, -1, 0))
ShapeE == Shape({Vector3(1, 1, 1), Vector3(1, 1, 0)}, Green, Vector3(0, 0, -1))

ShapeUniverse == {ShapeA, ShapeB, ShapeC, ShapeD, ShapeE}

\* object definitions, each given by the shapes read_shapes() yields
ObjectUniverse == {<<ShapeA>>, <<ShapeB>>, <<ShapeC>>, <<ShapeD>>, <<ShapeE>>}

LightNew(origin) == [origin |-> origin]
LightA == LightNew(Vector3(0, 0, -1))
LightB == LightNew(Vector3(0, -1, -1))
LightC == LightNew(Vector3(1, 1, 2))
LightUniverse == {LightA, LightB, LightC}
LightRow == <<LightA, LightB, LightC>>

CameraUniverse ==
    {CameraNew(Vector3(0, 0, 0), Vector3(0, 0, 2)),
     CameraNew(Vector3(0, 0, 1), Vector3(0, 0, 3))}

SeqsUpTo(S, n) == UNION {[1..k -> S] : k \in 0..n}

Min(a, b) == IF a <= b THEN a ELSE b

Configuration(camera, width, height, objects, lights, ambient, specular) ==
    [camera |-> camera, lights |-> lights, objects |-> objects,
     width |-> width, height |-> height,
     viewport_width |-> 2 * width, viewport_distance |-> 1,
     ambient_coefficient |-> ambient, specular_coefficient |-> specular]

\* configurations for rendering: every camera, image size and object list, with no
\* light or with a prefix of LightRow, and a fractional or a full ambient coefficient
DrawConfigurations ==
    {Configuration(c, w, h, o, SubSeq(LightRow, 1, n), a, 1) :
        c \in CameraUniverse, w \in 1..MaxSide, h \in 1..MaxSide,
        o \in SeqsUpTo(ObjectUniverse, MaxObjects),
        n \in {0, Min(MaxLights, Len(LightRow))}, a \in {1, FixedOne}}

\* configurations for the intersection search: every object list
SearchConfigurations ==
    {Configuration(c, MaxSide, MaxSide, o, <<>>, FixedOne, 1) :
        c \in CameraUniverse, o \in SeqsUpTo(ObjectUniverse, MaxObjects)}

\* configurations for shading: every object list, light list and coefficient
ShadingConfigurations ==
    {Configuration(c, MaxSide, MaxSide, o, l, a, s) :
        c \in CameraUniverse, o \in SeqsUpTo(ObjectUniverse, MaxObjects),
        l \in SeqsUpTo(LightUniverse, MaxLights), a \in 0..FixedOne, s \in 1..2}

Pixels(self) ==
    (0..(self.view_window.pixel_width - 1)) \X (0..(self.view_window.pixel_height - 1))

\* hits a ray can have produced: a shape of the scene struck at one of its points
Hits(self) ==
    {RayHit(self.scene_contents.shapes[i], p,
            MagnitudeSq(VSub(p, self.camera.origin), Zero)) :
        <<i, p>> \in {ip \in (1..Len(self.scene_contents.shapes)) \X
                                (UNION {s.surface : s \in ShapeUniverse}) :
                        ip[2] \in self.scene_contents.shapes[ip[1]].surface}}

\* rays the renderer builds: primary rays and biased shadow rays
ProbeRays(self) ==
    {PrimaryRay(self, p[1], p[2]) : p \in Pixels(self)}
    \cup {ToLight(h, l) : h \in Hits(self), l \in LightUniverse}

---------------------------------------------------------------------------
(* State machine: draw() *)

SetPixelCall(px, py, color) ==
    [op |-> "set_pixel", x |-> px, y |-> py, color |-> color]

\* the body of the loop that also writes a pixel whose ray strikes nothing
WritesEveryPixel(self, px, py) ==
    LET color == Trace(self, PrimaryRay(self, px, py))
    IN  IF IsSome(color) THEN <<SetPixelCall(px, py, Unwrap(color))>>
        ELSE <<SetPixelCall(px, py, Background)>>

\* the body of the loop that adds the traced colour to the pixel's present value
WritesOnTop(self, px, py) ==
    LET color == Trace(self, PrimaryRay(self, px, py))
    IN  IF IsSome(color)
        THEN <<SetPixelCall(px, py,
                   ColorAdd(self.pixel_buffer.pixels[<<px, py>>], Unwrap(color)))>>
        ELSE <<>>

\* the set_pixel calls of the body of the loop of draw() for pixel (px, py):
\* if let Some(color) = self.trace(&ray) { self.pixel_buffer.set_pixel(x, y, color) }
Writes(self, px, py) ==
    LET color == Trace(self, PrimaryRay(self, px, py))
    IN  IF IsSome(color) THEN <<SetPixelCall(px, py, Unwrap(color))>> ELSE <<>>

RECURSIVE Written(_, _)
\* the pixel buffer after the set_pixel calls writes, in order
Written(buffer, writes) ==
    IF writes = <<>> THEN buffer
    ELSE Written(SetPixel(buffer, Head(writes).x, Head(writes).y, Head(writes).color),
                 Tail(writes))

NoCall == [op |-> "none"]

InitWith(configurations) ==
    /\ scene \in {SceneNew(c) : c \in configurations}
    /\ pc = "idle"
    /\ x = 0
    /\ y = 0
    /\ log = <<>>
    /\ before = scene.pixel_buffer
    /\ returned = <<>>
    /\ call = NoCall

Init == InitWith(DrawConfigurations)

\* draw() is entered: for x in 0..pixel_width
DrawEnter ==
    /\ pc = "idle"
    /\ Len(returned) < MaxDraws
    /\ pc' = "loop"
    /\ x' = 0
    /\ y' = 0
    /\ log' = <<>>
    /\ before' = scene.pixel_buffer
    /\ UNCHANGED <<scene, returned, call>>

\* one iteration of the inner loop of draw(): trace the pixel, write it if struck
DrawPixel ==
    /\ pc = "loop"
    /\ LET writes == Writes(scene, x, y)
       IN  /\ scene' = [scene EXCEPT !.pixel_buffer = Written(@, writes)]
           /\ log' = log \o <<[op |-> "trace", x |-> x, y |-> y,
                               ray |-> PrimaryRay(scene, x, y)]>> \o writes
    /\ IF y + 1 < scene.view_window.pixel_height
       THEN /\ y' = y + 1
            /\ UNCHANGED <<x, pc>>
       ELSE /\ y' = 0
            /\ x' = x + 1
            /\ pc' = IF x + 1 < scene.view_window.pixel_width THEN "loop" ELSE "save"
    /\ UNCHANGED <<before, returned, call>>

\* save_image fails and is tried again
SaveImageRetry ==
    /\ pc = "save"
    /\ \E result \in {"Ok", "Err"} :
        /\ log' = Append(log, [op |-> "save_image", result |-> result])
        /\ IF result = "Ok"
           THEN /\ pc' = "idle"
                /\ returned' = Append(returned, scene.pixel_buffer)
           ELSE /\ pc' = IF Len(log) < 2 * Cardinality(Pixels(scene)) + 1
                         THEN "save" ELSE "panicked"
                /\ returned' = returned
    /\ UNCHANGED <<scene, x, y, before, call>>

\* self.pixel_buffer.save_image("img/scene.png").unwrap()
SaveImage ==
    /\ pc = "save"
    /\ \E result \in {"Ok", "Err"} :
        /\ log' = Append(log, [op |-> "save_image", result |-> result])
        /\ IF result = "Ok"
           THEN /\ pc' = "idle"
                /\ returned' = Append(returned, scene.pixel_buffer)
           ELSE /\ pc' = "panicked"
                /\ returned' = returned
    /\ UNCHANGED <<scene, x, y, before, call>>

Next == DrawEnter \/ DrawPixel \/ SaveImage

Spec == Init /\ [][Next]_vars

---------------------------------------------------------------------------
(* State machine: direct calls of closest_intersection and shadow *)

InitSearch == InitWith(SearchConfigurations)

CallClosestIntersection ==
    /\ call = NoCall
    /\ \E ray \in ProbeRays(scene), this_object \in {None} \cup {Some(s) : s \in ShapeUniverse} :
        call' = [op |-> "closest_intersection", ray |-> ray, this_object |-> this_object,
                 result |-> ClosestIntersection(scene, ray, this_object)]
    /\ UNCHANGED <<scene, pc, x, y, log, before, returned>>

CallShadow ==
    /\ call = NoCall
    /\ \E ray_hit \in Hits(scene), light \in LightUniverse :
        call' = [op |-> "shadow", ray_hit |-> ray_hit, light |-> light,
                 to_light |-> ToLight(ray_hit, light),
                 result |-> Shadow(scene, ray_hit, ToLight(ray_hit, light))]
    /\ UNCHANGED <<scene, pc, x, y, log, before, returned>>

NextSearch == CallClosestIntersection \/ CallShadow

SpecSearch == InitSearch /\ [][NextSearch]_vars

---------------------------------------------------------------------------
(* State machine: direct calls of light, as trace makes them *)

InitShading == InitWith(ShadingConfigurations)

CallLight ==
    /\ call = NoCall
    /\ \E p \in Pixels(scene) :
        LET ray == PrimaryRay(scene, p[1], p[2])
            found == ClosestIntersection(scene, ray, None)
        IN  /\ IsSome(found)
            /\ call' = [op |-> "light", pixel |-> p, ray |-> ray, ray_hit |-> Unwrap(found),
                        result |-> Light(scene, ray, Unwrap(found))]
    /\ UNCHANGED <<scene, pc, x, y, log, before, returned>>

NextShading == CallLight

SpecShading == InitShading /\ [][NextShading]_vars


---------------------------------------------------------------------------
(* Claims about closest_intersection and shadow (SpecSearch) *)

\* the squared distance closest_intersection computes for a point
DistanceFrom(ray, p) ==
    MagnitudeSq(VSub(p, ray.origin), VSub(Zero, ray.origin_eps))

\* the positions of the shape list whose shape reports an intersection with ray
Struck(shapes, ray) ==
    {i \in 1..Len(shapes) : IsSome(ShapeIntersect(shapes[i], ray))}

\* the hit every search must return: of the struck shapes at minimal distance,
\* the earliest in the list; None when no shape is struck
NearestHit(shapes, ray) ==
    LET struck == Struck(shapes, ray)
        d(i) == DistanceFrom(ray, Unwrap(ShapeIntersect(shapes[i], ray)))
        nearest == {i \in struck : \A j \in struck : ~Greater(d(i), d(j))}
        first == CHOOSE i \in nearest : \A j \in nearest : i <= j
    IN  IF struck = {} THEN None
        ELSE Some(RayHit(shapes[first], Unwrap(ShapeIntersect(shapes[first], ray)),
                         d(first)))

\* C1: with no excluded shape, closest_intersection returns None exactly when no
\* shape reports an intersection (so always for an empty list); otherwise it returns
\* the hit of the shape at minimal distance from ray.origin, the earliest in the
\* list among several at that distance.
C1_NearestEarliest ==
    (call.op = "closest_intersection" /\ call.this_object = None)
        => /\ (call.result = None) <=> (Struck(scene.scene_contents.shapes, call.ray) = {})
           /\ call.result = NearestHit(scene.scene_contents.shapes, call.ray)

\* C1 witness: two shapes of different value are struck at the same minimal
\* distance and a third struck shape is farther or absent; the earlier was returned
C1_Witness ==
    /\ call.op = "closest_intersection"
    /\ call.this_object = None
    /\ IsSome(call.result)
    /\ \E i, j \in Struck(scene.scene_contents.shapes, call.ray) :
        /\ i < j
        /\ scene.scene_contents.shapes[i] # scene.scene_contents.shapes[j]
        /\ scene.scene_contents.shapes[i] = Unwrap(call.result).shape
        /\ Unwrap(ShapeIntersect(scene.scene_contents.shapes[j], call.ray))
            = Unwrap(call.result).intersection

\* the shape list without the entries equal to shape
Without(shapes, shape) == SelectSeq(shapes, LAMBDA s : s # shape)

\* C2: with an excluded shape, the returned hit's shape is never the excluded
\* shape, and the result is that of the search on the list without the entries
\* equal to it.
C2_ExcludedSkipped ==
    (call.op = "closest_intersection" /\ IsSome(call.this_object))
        => /\ IsSome(call.result) => Unwrap(call.result).shape # Unwrap(call.this_object)
           /\ call.result =
                ClosestIntersection(
                    [scene EXCEPT !.scene_contents.shapes =
                        Without(@, Unwrap(call.this_object))],
                    call.ray, None)

\* C2 witness: the excluded shape is the nearest struck shape of the list, and
\* another shape was returned
C2_Witness ==
    /\ call.op = "closest_intersection"
    /\ IsSome(call.this_object)
    /\ IsSome(call.result)
    /\ IsSome(NearestHit(scene.scene_contents.shapes, call.ray))
    /\ Unwrap(NearestHit(scene.scene_contents.shapes, call.ray)).shape
        = Unwrap(call.this_object)

\* C3: shadow(ray_hit, to_light) is true exactly when some shape other than
\* ray_hit.shape reports an intersection with to_light, wherever that intersection
\* lies relative to the light.
C3_ShadowIffOccluder ==
    call.op = "shadow"
        => (call.result <=>
                \E i \in Struck(scene.scene_contents.shapes, call.to_light) :
                    scene.scene_contents.shapes[i] # call.ray_hit.shape)

\* C3 witness: shadow returned true and every occluder is farther from the shadow
\* ray's origin than the light is
C3_Witness ==
    /\ call.op = "shadow"
    /\ call.result
    /\ \A i \in Struck(scene.scene_contents.shapes, call.to_light) :
        scene.scene_contents.shapes[i] # call.ray_hit.shape
            => Greater(DistanceFrom(call.to_light,
                           Unwrap(ShapeIntersect(scene.scene_contents.shapes[i],
                                                 call.to_light))),
                       DistanceFrom(call.to_light, call.light.origin))


---------------------------------------------------------------------------
(* Claims about light (SpecShading) *)

\* the positions of the light list whose light is not shadowed at ray_hit and has
\* shade > 0 there
Contributing(self, ray_hit) ==
    {i \in 1..Len(self.scene_contents.lights) :
        LET to_light == ToLight(ray_hit, self.scene_contents.lights[i])
        IN  /\ ~Shadow(self, ray_hit, to_light)
            /\ Dot(to_light.direction,
                   ShapeNormal(ray_hit.shape, ray_hit.intersection,
                               OrientationVector(self.camera))) > 0}

Last(S) == CHOOSE i \in S : \A j \in S : j <= i

\* shape_color * ambient_coefficient
Ambient(self, ray_hit) ==
    ColorScale(ShapeColor(ray_hit.shape), self.scene_characteristics.ambient_coefficient)

\* Color(100, 100, 100) * max(0, to_light.direction . reflection) ^ specular_coefficient
SpecularTerm(self, ray, ray_hit, light) ==
    LET d == Dot(light.origin,
                 Reflection(ray, ShapeNormal(ray_hit.shape, ray_hit.intersection,
                                             OrientationVector(self.camera))))
        k == Powf(IF d > 0 THEN ToFixed(d) ELSE 0,
                  self.scene_characteristics.specular_coefficient)
    IN  <<FMul(ToFixed(SpecularLevel), k), FMul(ToFixed(SpecularLevel), k),
          FMul(ToFixed(SpecularLevel), k)>>

\* C4 as stated: with ambient_coefficient = 1, diffuse_coefficient = 0 and light()
\* returns exactly shape_color * 1 for every hit, lights and shadows.
C4_AmbientOneGivesShapeColor ==
    (call.op = "light" /\ scene.scene_characteristics.ambient_coefficient = ToFixed(1))
        => /\ scene.scene_characteristics.diffuse_coefficient = 0
           /\ call.result = ShapeColor(call.ray_hit.shape)

\* C4 amended: with ambient_coefficient = 1, diffuse_coefficient = 0 and light()
\* returns shape_color plus the specular term of the last light that is not
\* shadowed and has shade > 0; it returns shape_color itself when there is no such
\* light.
C4_AmbientOnePlusSpecular ==
    (call.op = "light" /\ scene.scene_characteristics.ambient_coefficient = ToFixed(1))
        => /\ scene.scene_characteristics.diffuse_coefficient = 0
           /\ call.result =
                IF Contributing(scene, call.ray_hit) = {}
                THEN ShapeColor(call.ray_hit.shape)
                ELSE ColorAdd(
                        SpecularTerm(scene, call.ray, call.ray_hit,
                            scene.scene_contents.lights[Last(Contributing(scene, call.ray_hit))]),
                        ShapeColor(call.ray_hit.shape))

\* C4 witness: ambient_coefficient = 1, a light contributes, and light() returned
\* more than the shape's colour
C4_Witness ==
    /\ call.op = "light"
    /\ scene.scene_characteristics.ambient_coefficient = ToFixed(1)
    /\ Contributing(scene, call.ray_hit) # {}
    /\ call.result # ShapeColor(call.ray_hit.shape)

\* C5: light() starts from shape_color * ambient_coefficient and every light, in
\* list order, that is not shadowed and has shade > 0 overwrites the result; the
\* returned colour is the value of the last such light, and the ambient baseline
\* when there is none.
C5_LastContributingLight ==
    call.op = "light"
        => call.result =
            IF Contributing(scene, call.ray_hit) = {}
            THEN Ambient(scene, call.ray_hit)
            ELSE Shaded(scene, call.ray, call.ray_hit,
                    scene.scene_contents.lights[Last(Contributing(scene, call.ray_hit))])

\* C5 witness: two lights contribute different values, and the value of the later
\* one, which is not the ambient baseline, was returned
C5_Witness ==
    /\ call.op = "light"
    /\ \E i, j \in Contributing(scene, call.ray_hit) :
        /\ i < j
        /\ Shaded(scene, call.ray, call.ray_hit, scene.scene_contents.lights[i])
            # Shaded(scene, call.ray, call.ray_hit, scene.scene_contents.lights[j])
        /\ call.result
            = Shaded(scene, call.ray, call.ray_hit, scene.scene_contents.lights[j])
        /\ call.result # Ambient(scene, call.ray_hit)

\* the scene with its light list reordered by the permutation f of its positions
Reordered(self, f) ==
    [self EXCEPT !.scene_contents.lights =
        [i \in 1..Len(self.scene_contents.lights) |-> self.scene_contents.lights[f[i]]]]

\* C6: the order of the light list is irrelevant: light() returns the same colour
\* for every reordering of the lights.
C6_LightOrderIrrelevant ==
    call.op = "light"
        => \A f \in Permutations(1..Len(scene.scene_contents.lights)) :
            Light(Reordered(scene, f), call.ray, call.ray_hit) = call.result


---------------------------------------------------------------------------
(* Claims about the rays (SpecShading) *)

\* d = normalize(v): d has unit length and points the way v does
IsNormalized(d, v) ==
    /\ Dot(d, d) = 1
    /\ Cross(d, v) = Zero
    /\ Dot(d, v) > 0

\* C9: the primary ray's direction is normalize(at(x, y) - camera.origin) and each
\* shadow ray's direction is normalize(light.origin - hit point).
C9_DirectionsNormalized ==
    call.op = "light"
        => /\ IsNormalized(call.ray.direction,
                   VSub(ViewWindowAt(scene.view_window, call.pixel[1], call.pixel[2]),
                        scene.camera.origin))
           /\ \A i \in 1..Len(scene.scene_contents.lights) :
                IsNormalized(
                    ToLight(call.ray_hit, scene.scene_contents.lights[i]).direction,
                    VSub(scene.scene_contents.lights[i].origin, call.ray_hit.intersection))

---------------------------------------------------------------------------
(* Claims about draw (Spec) *)

\* a draw() has been entered
Entered == pc # "idle" \/ returned # <<>>

\* the loop of the running (or last) draw() is past pixel (px, py)
Passed(px, py) ==
    \/ pc \in {"save", "panicked"}
    \/ pc = "idle" /\ returned # <<>>
    \/ pc = "loop" /\ (px < x \/ (px = x /\ py < y))

LogOf(op) == SelectSeq(log, LAMBDA e : e.op = op)

SetPixelsAt(px, py) ==
    SelectSeq(log, LAMBDA e : e.op = "set_pixel" /\ e.x = px /\ e.y = py)

\* C7: draw() called again on an unchanged Scene leaves every pixel with the value
\* it had after the first draw().
C7_DrawIdempotent ==
    \A i, j \in 1..Len(returned) : returned[i] = returned[j]

\* C7 witness: draw() returned twice, and the buffer holds a written and an
\* unwritten pixel
C7_Witness ==
    /\ Len(returned) >= 2
    /\ \E p, q \in Pixels(scene) :
        /\ returned[2].pixels[p] # Background
        /\ returned[2].pixels[q] = Background

\* C8: during draw(), set_pixel(x, y, c) is called exactly once, with
\* c = light(primary ray, nearest hit), for every pixel whose primary ray strikes a
\* shape, and not at all for a pixel whose ray strikes nothing, which keeps the
\* value it had before draw(); no cell outside the image is written.
C8_OneWritePerStruckPixel ==
    Entered =>
        /\ \A p \in Pixels(scene) :
            LET ray == PrimaryRay(scene, p[1], p[2])
                found == ClosestIntersection(scene, ray, None)
                calls == SetPixelsAt(p[1], p[2])
            IN  IF Passed(p[1], p[2]) /\ IsSome(found)
                THEN /\ Len(calls) = 1
                     /\ calls[1].color = Light(scene, ray, Unwrap(found))
                ELSE /\ calls = <<>>
                     /\ scene.pixel_buffer.pixels[p] = before.pixels[p]
        /\ \A k \in 1..Len(log) :
            log[k].op = "set_pixel" => <<log[k].x, log[k].y>> \in Pixels(scene)
        /\ DOMAIN scene.pixel_buffer.pixels = Pixels(scene)

\* C8 witness: the loop of draw() has ended with a written pixel and an unwritten one
C8_Witness ==
    /\ pc = "save"
    /\ \E p, q \in Pixels(scene) :
        /\ Len(SetPixelsAt(p[1], p[2])) = 1
        /\ SetPixelsAt(q[1], q[2]) = <<>>

\* C10: in one draw(), save_image is called exactly once, after every pixel has
\* been traced and with no set_pixel after it; when it fails draw() does not return
\* (no retry, no second save).
C10_SaveOnceAtEnd ==
    /\ Len(LogOf("save_image")) <= 1
    /\ (pc \in {"idle", "panicked"} /\ Entered) <=> (Len(LogOf("save_image")) = 1)
    /\ Len(LogOf("save_image")) = 1 =>
        /\ log[Len(log)].op = "save_image"
        /\ \A p \in Pixels(scene) :
            \E k \in 1..(Len(log) - 1) :
                log[k].op = "trace" /\ log[k].x = p[1] /\ log[k].y = p[2]
        /\ Len(LogOf("trace")) = Cardinality(Pixels(scene))
        /\ (log[Len(log)].result = "Err") <=> (pc = "panicked")
        /\ (log[Len(log)].result = "Ok") <=>
                (pc = "idle" /\ returned # <<>>
                    /\ returned[Len(returned)] = scene.pixel_buffer)

\* C10 witness: save_image failed after the loop traced several pixels and wrote one
C10_Witness ==
    /\ pc = "panicked"
    /\ Len(LogOf("trace")) >= 2
    /\ Len(LogOf("set_pixel")) >= 1
    /\ log[Len(log)] = [op |-> "save_image", result |-> "Err"]

===========================================================================
